---- MODULE Spec2Model ----
(***************************************************************************)
(* Task orchestration engine of cappuccino: the Agent.process loop         *)
(* (src/agent/agent.py), the Task Context Memory (src/agent/memory.py),    *)
(* the response parser (src/agent/planner.py) and the stream wrapper       *)
(* TaskHandler._run_agent (src/server/handlers.py), and the tool manager   *)
(* MCPClientManager (src/agent/mcp/client.py).                             *)
(*                                                                         *)
(* Five specifications share the operators:                                *)
(*   MemSpec    - the public operations of one TaskContextMemory, called   *)
(*                in any order with any arguments and any persist outcome; *)
(*   MgrSpec    - the public operations of one MCPClientManager, called in *)
(*                any order;                                               *)
(*   Spec       - one run of Agent.process under TaskHandler._run_agent;   *)
(*   FairSpec   - Spec when every awaited call returns or raises;          *)
(*   ServerSpec - the agent tasks of one server process, which share the   *)
(*                manager and interleave where Agent.process awaits.       *)
(***************************************************************************)
EXTENDS Integers, Sequences, FiniteSets, TLC

VARIABLES
    task_memory,    \* the TaskContextMemory object (memory.py:111-126)
    file,           \* <run_folder>/memory.json (memory.py:358-360)
    clock,          \* datetime.now(), as a logical time
    last_call,      \* MemSpec: the memory operation called last, with what it returned
    pc,             \* where Agent.process / agent_task stands
    max_iterations, \* self.max_iterations (agent.py:60)
    iteration,      \* the local iteration of Agent.process (agent.py:165)
    action,         \* the action envelope the last dispatch returned (agent.py:174)
    exc,            \* the exception propagating out of Agent.process, or None
    queue,          \* the StreamMessages put on the caller's queue (handlers.py:125)
    log,            \* the warnings and errors Agent.process has logged
    servers,        \* MCPClientManager._servers: name -> server info (client.py:46)
    calls,          \* how often each collaborator has been called in this run
    exit_stack,     \* MCPClientManager._exit_stack: every context entered so far,
                    \* with its state (client.py:48, 75, 79, 223)
    tasks           \* ServerSpec: the agent tasks started by _run_agent

mem_vars == <<task_memory, file, clock, last_call>>
agent_vars == <<pc, max_iterations, iteration, action, exc, queue, log, servers, calls,
                exit_stack, tasks>>
vars == <<task_memory, file, clock, last_call, pc, max_iterations, iteration, action,
          exc, queue, log, servers, calls, exit_stack, tasks>>

-----------------------------------------------------------------------------
(* Bounds *)

\* MemSpec: the longest action history examined
MaxHistory == 3
\* MemSpec: get_recent_actions(n) is called with n in 0..MaxWindow
MaxWindow == 3

-----------------------------------------------------------------------------
(* Values *)

None == "None"

\* plan texts given to set_plan
Plans == {"plan_a", "plan_b"}
\* keys and values given to save_info (save_info(key: str, value: str))
Keys == {"k"}
Vals == {"v1", "v2"}

\* (action_type, params, result) triples given to add_dispatcher_action
ActionInputs ==
    { [action_type |-> "execute", params |-> [action |-> "click"], result |-> None],
      [action_type |-> "mcp",
       params |-> [server |-> "s1", tool |-> "t", success |-> TRUE],
       result |-> "r1"] }

\* how one _save_to_file call ends: the file is written; open() raises
\* (nothing is touched); json.dump raises after open(path, 'w') truncated the file
PersistOutcomes == {"ok", "open_fails", "write_fails"}

EmptyDict == [k \in {} |-> None]

\* memory.json does not exist / holds an incomplete JSON text / holds a document
NoFile == [exists |-> FALSE, text |-> <<>>]
PartialFile == [exists |-> TRUE, text |-> <<>>]
WrittenFile(doc) == [exists |-> TRUE, text |-> <<doc>>]

-----------------------------------------------------------------------------
(* DispatcherAction (memory.py:16-48) *)

DispatcherAction(action_type, params, result, now) ==
    [action_type |-> action_type, params |-> params, result |-> result,
     timestamp |-> now]

DispatcherAction_to_dict(a) ==
    [action_type |-> a.action_type, params |-> a.params, result |-> a.result,
     timestamp |-> a.timestamp]

DispatcherAction_from_dict(d) ==
    [DispatcherAction(d.action_type, d.params, d.result, 0)
        EXCEPT !.timestamp = d.timestamp]

-----------------------------------------------------------------------------
(* TaskContextMemory (memory.py:88-363) *)

TaskContextMemory(task_id, user_query, run_folder, now) ==
    [task_id |-> task_id, user_query |-> user_query, current_plan |-> "",
     run_folder |-> run_folder, dispatcher_actions |-> <<>>,
     saved_info |-> EmptyDict, current_step |-> 0, created_at |-> now]

to_dict(m) ==
    [task_id |-> m.task_id,
     user_query |-> m.user_query,
     current_plan |-> m.current_plan,
     current_step |-> m.current_step,
     created_at |-> m.created_at,
     dispatcher_actions |->
        [i \in 1..Len(m.dispatcher_actions) |->
            DispatcherAction_to_dict(m.dispatcher_actions[i])],
     saved_info |-> m.saved_info]

from_dict(data, run_folder) ==
    [TaskContextMemory(data.task_id, data.user_query, run_folder, 0) EXCEPT
        !.current_plan = data.current_plan,
        !.current_step = data.current_step,
        !.created_at = data.created_at,
        !.saved_info = data.saved_info,
        !.dispatcher_actions =
            [i \in 1..Len(data.dispatcher_actions) |->
                DispatcherAction_from_dict(data.dispatcher_actions[i])]]

\* a _save_to_file whose except clause is missing: a failed persist raises
_save_to_file_propagates(m, f, outcome) ==
    [file |-> CASE outcome = "ok" -> WrittenFile(to_dict(m))
                [] outcome = "open_fails" -> f
                [] outcome = "write_fails" -> PartialFile,
     raised |-> outcome # "ok"]

\* _save_to_file: open(memory_path, 'w') then json.dump(self.to_dict(), f), the
\* whole in try/except Exception: pass.  Returns the file and whether it raised.
_save_to_file(m, f, outcome) ==
    [file |-> CASE outcome = "ok" -> WrittenFile(to_dict(m))
                [] outcome = "open_fails" -> f
                [] outcome = "write_fails" -> PartialFile,
     raised |-> FALSE]

\* a set_plan that persists and forgets to assign
set_plan_keepsOld(m, f, plan, outcome) ==
    [mem |-> m, file |-> _save_to_file(m, f, outcome).file, raised |-> FALSE]

\* Each mutating call returns the memory, the file and whether it raised.
set_plan(m, f, plan, outcome) ==
    LET m2 == [m EXCEPT !.current_plan = plan]
        s == _save_to_file(m2, f, outcome)
    IN  [mem |-> m2, file |-> s.file, raised |-> s.raised]

save_info(m, f, key, value, outcome) ==
    LET m2 == [m EXCEPT !.saved_info =
                    [k \in DOMAIN m.saved_info \cup {key} |->
                        IF k = key THEN value ELSE m.saved_info[k]]]
        s == _save_to_file(m2, f, outcome)
    IN  [mem |-> m2, file |-> s.file, raised |-> s.raised]

\* an add_dispatcher_action that counts a step only for the first record
add_dispatcher_action_stepOnce(m, f, action_type, params, result, now, outcome) ==
    LET m1 == [m EXCEPT !.current_step = IF m.current_step = 0 THEN 1 ELSE @]
        m2 == [m1 EXCEPT !.dispatcher_actions =
                    Append(m1.dispatcher_actions,
                           DispatcherAction(action_type, params, result, now))]
    IN  [mem |-> m2, file |-> _save_to_file(m2, f, outcome).file, raised |-> FALSE]

add_dispatcher_action(m, f, action_type, params, result, now, outcome) ==
    LET m1 == [m EXCEPT !.current_step = m.current_step + 1]
        m2 == [m1 EXCEPT !.dispatcher_actions =
                    Append(m1.dispatcher_actions,
                           DispatcherAction(action_type, params, result, now))]
        s == _save_to_file(m2, f, outcome)
    IN  [mem |-> m2, file |-> s.file, raised |-> s.raised]

\* self.dispatcher_actions[-n:] if len(self.dispatcher_actions) > n
\* else self.dispatcher_actions.  A Python slice [-n:] starts at index len-n for
\* 1 <= n <= len, and [-0:] is [0:], the whole list.
PySliceLast(s, n) ==
    IF n = 0 THEN s ELSE SubSeq(s, Len(s) - n + 1, Len(s))

get_recent_actions(m, n) ==
    IF Len(m.dispatcher_actions) > n
    THEN PySliceLast(m.dispatcher_actions, n)
    ELSE m.dispatcher_actions

get_all_actions(m) == m.dispatcher_actions

\* json.load of memory.json followed by TaskContextMemory.from_dict; a missing
\* or incomplete file does not decode, and the result is then empty
load_file(f, run_folder) ==
    IF f.exists /\ Len(f.text) = 1
    THEN <<from_dict(f.text[1], run_folder)>>
    ELSE <<>>

-----------------------------------------------------------------------------
(* MemSpec: the operations of one TaskContextMemory *)

RunFolder == "temp/run"

NoCall == [op |-> "none", arg |-> <<>>, outcome |-> None, raised |-> FALSE,
           result |-> <<>>]

\* Agent.process is not running in MemSpec
NoEnvelope == [py |-> "None", empty |-> TRUE, type |-> None,
               params |-> [is_dict |-> TRUE, d |-> EmptyDict]]
\* an empty self._servers; no agent task
NoServers == EmptyDict
NoTasks == <<>>
NoCalls == [plan |-> 0, dispatch |-> 0, executor |-> 0, call_tool |-> 0, close_all |-> 0,
            tool_errors |-> 0]

MemInit ==
    /\ pc = "idle"
    /\ max_iterations = 0
    /\ iteration = 0
    /\ action = NoEnvelope
    /\ exc = None
    /\ queue = <<>>
    /\ log = {}
    /\ servers = NoServers
    /\ exit_stack = <<>>
    /\ tasks = NoTasks
    /\ calls = NoCalls
    /\ task_memory = TaskContextMemory("task", "query", RunFolder, 0)
    /\ file = NoFile
    /\ clock = 1
    /\ last_call = NoCall

MemSetPlan ==
    \E plan \in Plans, outcome \in PersistOutcomes :
        LET r == set_plan(task_memory, file, plan, outcome) IN
        /\ task_memory' = r.mem
        /\ file' = r.file
        /\ last_call' = [op |-> "set_plan", arg |-> <<plan>>, outcome |-> outcome,
                         raised |-> r.raised, result |-> <<>>]
        /\ UNCHANGED clock
        /\ UNCHANGED agent_vars

MemSaveInfo ==
    \E key \in Keys, value \in Vals, outcome \in PersistOutcomes :
        LET r == save_info(task_memory, file, key, value, outcome) IN
        /\ task_memory' = r.mem
        /\ file' = r.file
        /\ last_call' = [op |-> "save_info", arg |-> <<key, value>>,
                         outcome |-> outcome, raised |-> r.raised, result |-> <<>>]
        /\ UNCHANGED clock
        /\ UNCHANGED agent_vars

MemAddAction ==
    /\ Len(task_memory.dispatcher_actions) < MaxHistory
    /\ \E a \in ActionInputs, outcome \in PersistOutcomes :
        LET r == add_dispatcher_action(task_memory, file, a.action_type, a.params,
                                       a.result, clock, outcome) IN
        /\ task_memory' = r.mem
        /\ file' = r.file
        /\ last_call' = [op |-> "add_dispatcher_action", arg |-> <<a>>,
                         outcome |-> outcome, raised |-> r.raised, result |-> <<>>]
        /\ clock' = clock + 1
        /\ UNCHANGED agent_vars

MemGetRecent ==
    \E n \in 0..MaxWindow :
        /\ last_call' = [op |-> "get_recent_actions", arg |-> <<n>>,
                         outcome |-> None, raised |-> FALSE,
                         result |-> get_recent_actions(task_memory, n)]
        /\ UNCHANGED <<task_memory, file, clock>>
    /\ UNCHANGED agent_vars

MemGetAll ==
    /\ last_call' = [op |-> "get_all_actions", arg |-> <<>>, outcome |-> None,
                     raised |-> FALSE, result |-> get_all_actions(task_memory)]
    /\ UNCHANGED <<task_memory, file, clock>>
    /\ UNCHANGED agent_vars

MemToDict ==
    /\ last_call' = [op |-> "to_dict", arg |-> <<>>, outcome |-> None,
                     raised |-> FALSE, result |-> <<to_dict(task_memory)>>]
    /\ UNCHANGED <<task_memory, file, clock>>
    /\ UNCHANGED agent_vars

\* load memory.json and serialize the loaded object again
MemReload ==
    /\ load_file(file, RunFolder) # <<>>
    /\ last_call' = [op |-> "reload", arg |-> <<>>, outcome |-> None,
                     raised |-> FALSE,
                     result |-> <<to_dict(load_file(file, RunFolder)[1])>>]
    /\ UNCHANGED <<task_memory, file, clock>>
    /\ UNCHANGED agent_vars

MemNext ==
    \/ MemSetPlan
    \/ MemSaveInfo
    \/ MemAddAction
    \/ MemGetRecent
    \/ MemGetAll
    \/ MemToDict
    \/ MemReload

MemSpec == MemInit /\ [][MemNext]_vars

-----------------------------------------------------------------------------
(* The reasoning client's replies and the response parser (planner.py) *)

\* largest max_iterations examined; Init draws max_iterations from 0..MaxIterations
MaxIterations == 2

\* params.get("message", "任务已完成") (agent.py:219)
DefaultReply == "task finished"
\* the sentinel rationale of a failed decode (planner.py:361)
ParseFailed == "parse failed"

Params(d) == [is_dict |-> TRUE, d |-> d]
\* a "params" value that is no JSON object (a string, a number, null)
BadParams == [is_dict |-> FALSE, d |-> EmptyDict]

\* an action envelope {"type": ..., "params": ...} as Python sees it
Envelope(type, params) ==
    [py |-> "dict", empty |-> FALSE, type |-> type, params |-> params]
\* json_dict.get("action", {}) when the key is missing, or "action": {}
EmptyEnvelope == [py |-> "dict", empty |-> TRUE, type |-> None, params |-> Params(EmptyDict)]
\* "action": null
NullEnvelope == NoEnvelope
\* "action": "reply" - a JSON string where the object is expected
StrEnvelope == [py |-> "str", empty |-> FALSE, type |-> None, params |-> Params(EmptyDict)]

Envelopes ==
    { NullEnvelope,
      EmptyEnvelope,
      StrEnvelope,
      Envelope(None, Params([action |-> "click"])),
      Envelope("execute", Params([action |-> "click"])),
      Envelope("execute", BadParams),
      Envelope("save_info", Params([key |-> "k", value |-> "v1"])),
      Envelope("modify_plan", Params([new_plan |-> "plan_b"])),
      Envelope("mcp", Params([server |-> "s1", tool |-> "t"])),
      Envelope("mcp", Params([server |-> "s2", tool |-> "t"])),
      Envelope("reply", Params([message |-> "done"])),
      Envelope("reply", Params(EmptyDict)),
      Envelope("wait", Params(EmptyDict)) }

\* What completion.choices[0].message.content can be: a text json.loads rejects,
\* a JSON text that is no object ("42", "[]", "null"), or a JSON object with or
\* without an "action" member.
Contents ==
    { [json |-> "invalid", has_action |-> FALSE, action |-> EmptyEnvelope],
      [json |-> "non_object", has_action |-> FALSE, action |-> EmptyEnvelope],
      [json |-> "object", has_action |-> FALSE, action |-> EmptyEnvelope] }
    \cup { [json |-> "object", has_action |-> TRUE, action |-> e] : e \in Envelopes }

\* a parser that answers a failed decode with an action that keeps the loop going
_parse_dispatch_response_keepsGoing(content) ==
    CASE content.json = "invalid" ->
            [raised |-> None, thinking |-> ParseFailed,
             action |-> Envelope("wait", Params(EmptyDict))]
      [] content.json = "non_object" ->
            [raised |-> "AttributeError in _parse_dispatch_response",
             thinking |-> None, action |-> EmptyEnvelope]
      [] content.json = "object" ->
            [raised |-> None, thinking |-> "thinking",
             action |-> IF content.has_action THEN content.action ELSE EmptyEnvelope]

\* Planner._parse_dispatch_response: json.loads, then json_dict.get on the value;
\* only json.JSONDecodeError is caught, so .get on a value that is no dict
\* leaves as AttributeError.
_parse_dispatch_response(content) ==
    CASE content.json = "invalid" ->
            [raised |-> None, thinking |-> ParseFailed, action |-> EmptyEnvelope]
      [] content.json = "non_object" ->
            [raised |-> "AttributeError in _parse_dispatch_response",
             thinking |-> None, action |-> EmptyEnvelope]
      [] content.json = "object" ->
            [raised |-> None, thinking |-> "thinking",
             action |-> IF content.has_action THEN content.action ELSE EmptyEnvelope]

\* What the plan call's content can be, and Planner._parse_plan_response
PlanContents ==
    { [json |-> "invalid", plan |-> "raw text"],
      [json |-> "non_object", plan |-> None],
      [json |-> "object", plan |-> "plan_a"],
      [json |-> "object", plan |-> ""] }

_parse_plan_response(content) ==
    CASE content.json = "invalid" ->
            [raised |-> None, thinking |-> "plan parse failed", plan |-> content.plan]
      [] content.json = "non_object" ->
            [raised |-> "AttributeError in _parse_plan_response",
             thinking |-> None, plan |-> None]
      [] content.json = "object" ->
            [raised |-> None, thinking |-> "thinking", plan |-> content.plan]

\* a lookup that always answers with the default
Get_ignoresKey(d, key, default) == default

\* dict.get(key, default)
Get(d, key, default) == IF key \in DOMAIN d THEN d[key] ELSE default

\* a test that forgets the type: not action
NoActionType_ignoresType(a) ==
    \/ a.py = "None"
    \/ a.py = "dict" /\ a.empty

\* not action or not action.get("type") (agent.py:176); undefined for a str
NoActionType(a) ==
    \/ a.py = "None"
    \/ a.py = "dict" /\ a.empty
    \/ a.py = "dict" /\ a.type = None

-----------------------------------------------------------------------------
(* The tool manager MCPClientManager (mcp/client.py) *)

\* names given to add_server, remove_server and call_tool
ServerNames == {"s1", "s2"}
\* launch configurations: two with a "command", one without (config["command"]
\* raises KeyError, client.py:69)
Configs == {"c1", "c2", "no_command"}
\* the tools a server started from a configuration lists (client.py:83-84)
Catalog(config) == IF config = "c1" THEN {"t1"} ELSE {"t1", "t2"}

\* self.mcp_servers: the servers of the task's configuration (agent.py:65)
McpServers == [s1 |-> "c1"]
ConfiguredServers == DOMAIN McpServers

\* how far one add_server call gets: stdio_client fails to start the process;
\* entering ClientSession fails; session.initialize() fails; session.list_tools()
\* fails; everything succeeds (client.py:75-83)
AddOutcomes == {"launch_fails", "session_fails", "handshake_fails", "catalog_fails",
                "ok"}

\* what session.call_tool does, as examined here: it returns a result or raises
\* (client.py:187-218); call_tool below also covers a result with isError set
SessionOutcomes == {"ok", "raises"}

\* a call of the reasoning endpoint, of the Executor, or of the __aexit__ of one
\* context returns or raises
CallOutcomes == {"returns", "raises"}

MCPToolResult(success, server_name, tool_name, data, error_message) ==
    [success |-> success, server_name |-> server_name, tool_name |-> tool_name,
     data |-> data, error_message |-> error_message]

\* dict assignment and del
Put(d, key, value) == [x \in DOMAIN d \cup {key} |-> IF x = key THEN value ELSE d[x]]
Del(d, key) == [x \in DOMAIN d \ {key} |-> d[x]]

\* a context entered on the exit stack: the stdio transport or the ClientSession
\* of one add_server call; by: the task that called add_server
Context(kind, server, by) ==
    [kind |-> kind, server |-> server, by |-> by, state |-> "open"]

\* an add_server that registers the name before the handshake
add_server_registersEarly(registry, stack, name, config, outcome, by) ==
    IF config = "no_command" \/ outcome = "launch_fails"
    THEN [registry |-> registry, stack |-> stack, result |-> FALSE, raised |-> FALSE]
    ELSE LET opened == stack \o <<Context("transport", name, by),
                                  Context("session", name, by)>>
         IN  [registry |-> Put(registry, name,
                               [config |-> config, session |-> Len(opened),
                                tools |-> Catalog(config)]),
              stack |-> opened, result |-> outcome = "ok", raised |-> FALSE]

\* MCPClientManager.add_server: result is what it returns
add_server(registry, stack, name, config, outcome, by) ==
    LET transport == Context("transport", name, by)
        session == Context("session", name, by)
        failed(st) == [registry |-> registry, stack |-> st, result |-> FALSE,
                       raised |-> FALSE]
    IN  CASE config = "no_command" -> failed(stack)
          [] outcome = "launch_fails" -> failed(stack)
          [] outcome = "session_fails" -> failed(Append(stack, transport))
          [] outcome \in {"handshake_fails", "catalog_fails"} ->
                failed(stack \o <<transport, session>>)
          [] OTHER ->
                [registry |-> Put(registry, name,
                                  [config |-> config, session |-> Len(stack) + 2,
                                   tools |-> Catalog(config)]),
                 stack |-> stack \o <<transport, session>>,
                 result |-> TRUE, raised |-> FALSE]

\* MCPClientManager.remove_server
remove_server(registry, stack, name) ==
    IF name \notin DOMAIN registry
    THEN [registry |-> registry, stack |-> stack, raised |-> FALSE]
    ELSE [registry |-> Del(registry, name), stack |-> stack, raised |-> FALSE]

\* MCPClientManager.list_servers
list_servers(registry) == DOMAIN registry

\* a call_tool that goes to the transport before it looks the name up
call_tool_contactsFirst(registry, server_name, tool_name, session) ==
    [contacted |-> TRUE,
     result |-> MCPToolResult(FALSE, server_name, tool_name, None, "not found")]

\* a call_tool that reports a raised session call as a success without data
call_tool_swallowsError(registry, server_name, tool_name, session) ==
    IF server_name \notin DOMAIN registry
    THEN [contacted |-> FALSE,
          result |-> MCPToolResult(FALSE, server_name, tool_name, None, "not found")]
    ELSE [contacted |-> TRUE,
          result |-> IF session = "ok"
                     THEN MCPToolResult(TRUE, server_name, tool_name, "data", "")
                     ELSE MCPToolResult(TRUE, server_name, tool_name, None, "")]

\* MCPClientManager.call_tool; contacted: whether session.call_tool was called
call_tool(registry, server_name, tool_name, session) ==
    IF server_name \notin DOMAIN registry
    THEN [contacted |-> FALSE,
          result |-> MCPToolResult(FALSE, server_name, tool_name, None, "not found")]
    ELSE [contacted |-> TRUE,
          result |-> CASE session = "ok" ->
                            MCPToolResult(TRUE, server_name, tool_name, "data", "")
                       [] session = "is_error" ->
                            MCPToolResult(FALSE, server_name, tool_name, "tool failed",
                                          "tool failed")
                       [] session = "raises" ->
                            MCPToolResult(FALSE, server_name, tool_name, None,
                                          "session error")]

\* an unwinding that stops at the first __aexit__ that raises
aclose_stopsAtFailure(stack, teardown) ==
    LET stops(i) == \E j \in DOMAIN stack :
                        j > i /\ stack[j].state = "open" /\ teardown[j] = "raises"
    IN  [stack |-> [i \in DOMAIN stack |->
                    IF stack[i].state # "open" \/ stops(i) THEN stack[i]
                    ELSE [stack[i] EXCEPT !.state =
                            IF teardown[i] = "raises" THEN "failed" ELSE "closed"]],
         raised |-> \E i \in DOMAIN stack :
                    stack[i].state = "open" /\ teardown[i] = "raises"]

\* AsyncExitStack.aclose(): every context still open is exited, last entered
\* first; an __aexit__ that raises does not stop the unwinding, and the
\* exception raised last leaves aclose. teardown[i]: what the __aexit__ of
\* context i does
aclose(stack, teardown) ==
    [stack |-> [i \in DOMAIN stack |->
                    IF stack[i].state # "open" THEN stack[i]
                    ELSE [stack[i] EXCEPT !.state =
                            IF teardown[i] = "raises" THEN "failed" ELSE "closed"]],
     raised |-> \E i \in DOMAIN stack :
                    stack[i].state = "open" /\ teardown[i] = "raises"]

\* MCPClientManager.close_all: self._servers.clear(); await self._exit_stack.aclose()
close_all(registry, stack, teardown) ==
    LET r == aclose(stack, teardown)
    IN  [registry |-> NoServers, stack |-> r.stack, raised |-> r.raised]

-----------------------------------------------------------------------------
(* MgrSpec: the public operations of one MCPClientManager, called in any      *)
(* order                                                                       *)

\* MgrSpec: add_server is called while the exit stack has room for its two contexts
MaxContexts == 4

\* the tool names given to call_tool
ToolNames == {"t1"}

\* the caller of the manager in MgrSpec
Caller == 1

mgr_frame == <<task_memory, file, clock, pc, max_iterations, iteration, action, exc,
               queue, log, calls, tasks>>

MgrInit ==
    /\ pc = "idle"
    /\ max_iterations = 0
    /\ iteration = 0
    /\ action = NoEnvelope
    /\ exc = None
    /\ queue = <<>>
    /\ log = {}
    /\ servers = NoServers
    /\ exit_stack = <<>>
    /\ tasks = NoTasks
    /\ calls = NoCalls
    /\ task_memory = TaskContextMemory("task", "query", RunFolder, 0)
    /\ file = NoFile
    /\ clock = 1
    /\ last_call = NoCall

MgrAddServer ==
    /\ Len(exit_stack) + 2 <= MaxContexts
    /\ \E name \in ServerNames, config \in Configs, outcome \in AddOutcomes :
        LET r == add_server(servers, exit_stack, name, config, outcome, Caller) IN
        /\ servers' = r.registry
        /\ exit_stack' = r.stack
        /\ last_call' = [op |-> "add_server", arg |-> <<name, config>>,
                         outcome |-> outcome, raised |-> r.raised,
                         result |-> <<r.result>>]
    /\ UNCHANGED mgr_frame

MgrRemoveServer ==
    /\ \E name \in ServerNames :
        LET r == remove_server(servers, exit_stack, name) IN
        /\ servers' = r.registry
        /\ exit_stack' = r.stack
        /\ last_call' = [op |-> "remove_server", arg |-> <<name>>, outcome |-> None,
                         raised |-> r.raised, result |-> <<>>]
    /\ UNCHANGED mgr_frame

MgrListServers ==
    /\ last_call' = [op |-> "list_servers", arg |-> <<>>, outcome |-> None,
                     raised |-> FALSE, result |-> <<list_servers(servers)>>]
    /\ UNCHANGED <<servers, exit_stack>>
    /\ UNCHANGED mgr_frame

MgrCallTool ==
    /\ \E name \in ServerNames, tool \in ToolNames, session \in SessionOutcomes :
        LET r == call_tool(servers, name, tool, session) IN
        /\ last_call' = [op |-> "call_tool", arg |-> <<name, tool>>,
                         outcome |-> IF r.contacted THEN session ELSE None,
                         raised |-> FALSE, result |-> <<r>>]
    /\ UNCHANGED <<servers, exit_stack>>
    /\ UNCHANGED mgr_frame

MgrCloseAll ==
    /\ \E teardown \in [DOMAIN exit_stack -> CallOutcomes] :
        LET r == close_all(servers, exit_stack, teardown) IN
        /\ servers' = r.registry
        /\ exit_stack' = r.stack
        /\ last_call' = [op |-> "close_all", arg |-> <<>>, outcome |-> None,
                         raised |-> r.raised, result |-> <<>>]
    /\ UNCHANGED mgr_frame

MgrNext ==
    \/ MgrAddServer
    \/ MgrRemoveServer
    \/ MgrListServers
    \/ MgrCallTool
    \/ MgrCloseAll

MgrSpec == MgrInit /\ [][MgrNext]_vars

-----------------------------------------------------------------------------
(* Spec: one run of Agent.process (agent.py:149-255) inside agent_task        *)
(* (handlers.py:134-148)                                                      *)

\* send_callback is the caller's: it puts a StreamMessage on the caller's queue
\* (handlers.py:127-132) or raises (the callback of server/server.py:100 takes no
\* is_complete argument)
CallbackOutcomes == {"ok", "raises"}

\* a message that loses the error mark
StreamMessage_dropsError(role, output, is_complete, is_error) ==
    [role |-> role, output |-> output, is_complete |-> is_complete,
     is_error |-> FALSE]

StreamMessage(role, output, is_complete, is_error) ==
    [role |-> role, output |-> output, is_complete |-> is_complete,
     is_error |-> is_error]

\* a callback that delivers nothing
send_callback_silent(q, role, output, is_complete) == q

\* a callback that drops is_complete
send_callback_dropsComplete(q, role, output, is_complete) ==
    Append(q, StreamMessage(role, output, FALSE, FALSE))

\* await self.send_callback(role, output, is_complete=...)
send_callback(q, role, output, is_complete) ==
    Append(q, StreamMessage(role, output, is_complete, FALSE))

Init ==
    /\ pc = "init_mcp"
    /\ max_iterations \in 0..MaxIterations
    /\ iteration = 0
    /\ action = NoEnvelope
    /\ exc = None
    /\ queue = <<>>
    /\ log = {}
    /\ servers = NoServers
    /\ exit_stack = <<>>
    /\ tasks = NoTasks
    /\ calls = NoCalls
    /\ task_memory = TaskContextMemory("task", "query", RunFolder, 0)
    /\ file = NoFile
    /\ clock = 1
    /\ last_call = NoCall

\* an exception that leaves process past its finally clause
Raise_skipsFinally(e) ==
    /\ pc' = "raised"
    /\ exc' = e

\* an exception leaves the try body of process (agent.py:245)
Raise(e) ==
    /\ pc' = "except"
    /\ exc' = e

\* the loop body ended without break: time.sleep(1), back to the while test
Continue ==
    /\ pc' = "loop"
    /\ UNCHANGED exc

\* the task that runs in Spec
ThisTask == 1

\* Agent._init_mcp: add_server for each configured server; it returns True
\* (registered) or False, both are only logged (agent.py:139-147)
InitMcp ==
    /\ pc = "init_mcp"
    /\ \E outcome \in AddOutcomes :
        LET name == CHOOSE n \in ConfiguredServers : TRUE
            r == add_server(servers, exit_stack, name, McpServers[name], outcome,
                            ThisTask)
        IN  /\ servers' = r.registry
            /\ exit_stack' = r.stack
    /\ pc' = "initial_plan"
    /\ UNCHANGED <<mem_vars, max_iterations, iteration, action, exc, queue, log, calls,
                   tasks>>

\* Agent._run_initial_plan
RunInitialPlan ==
    /\ pc = "initial_plan"
    /\ calls' = [calls EXCEPT !.plan = @ + 1]
    /\ \E llm \in CallOutcomes, c \in PlanContents, o \in PersistOutcomes,
          cb \in CallbackOutcomes :
        LET p == _parse_plan_response(c)
            r == set_plan(task_memory, file, p.plan, o)
        IN  IF llm = "raises"
            THEN Raise("llm error") /\ UNCHANGED <<task_memory, file, queue>>
            ELSE IF p.raised # None
            THEN Raise(p.raised) /\ UNCHANGED <<task_memory, file, queue>>
            ELSE /\ task_memory' = r.mem
                 /\ file' = r.file
                 /\ IF r.raised
                    THEN Raise("persist error") /\ UNCHANGED queue
                    ELSE IF cb = "raises"
                    THEN Raise("callback error") /\ UNCHANGED queue
                    ELSE /\ queue' = send_callback(queue, "planner",
                                        [thinking |-> p.thinking, plan |-> p.plan], FALSE)
                         /\ Continue
    /\ UNCHANGED <<clock, last_call, max_iterations, iteration, action, log, servers, exit_stack, tasks>>

\* a loop test that is off by one
LoopTest_offByOne(i, n) == i <= n

\* while iteration < max_iterations (agent.py:169)
LoopTest(i, n) == i < n

\* while iteration < max_iterations: iteration += 1; self._run_dispatcher()
\* (Planner.dispatch reads the memory for its prompt and changes nothing)
RunDispatcher ==
    /\ pc = "loop"
    /\ LoopTest(iteration, max_iterations)
    /\ iteration' = iteration + 1
    /\ calls' = [calls EXCEPT !.dispatch = @ + 1]
    /\ \E llm \in CallOutcomes, c \in Contents, cb \in CallbackOutcomes :
        LET p == _parse_dispatch_response(c)
        IN  IF llm = "raises"
            THEN Raise("llm error") /\ UNCHANGED <<queue, action>>
            ELSE IF p.raised # None
            THEN Raise(p.raised) /\ UNCHANGED <<queue, action>>
            ELSE IF cb = "raises"
            THEN Raise("callback error") /\ UNCHANGED <<queue, action>>
            ELSE /\ queue' = send_callback(queue, "planner",
                                [thinking |-> p.thinking, action |-> p.action], FALSE)
                 /\ action' = p.action
                 /\ pc' = "route"
                 /\ UNCHANGED exc
    /\ UNCHANGED <<mem_vars, max_iterations, log, servers, exit_stack, tasks>>

\* the while test fails
LoopExit ==
    /\ pc = "loop"
    /\ ~LoopTest(iteration, max_iterations)
    /\ pc' = "after_loop"
    /\ UNCHANGED <<mem_vars, max_iterations, iteration, action, exc, queue, log,
                   servers, exit_stack, tasks, calls>>

\* if not action or not action.get("type"): warning; break
NoAction ==
    /\ pc = "route"
    /\ action.py # "str"
    /\ NoActionType(action)
    /\ log' = log \cup {"empty action"}
    /\ pc' = "after_loop"
    /\ UNCHANGED <<mem_vars, max_iterations, iteration, action, exc, queue, servers, exit_stack, tasks,
                   calls>>

\* action is a non-empty str: action.get raises AttributeError (agent.py:176)
BadEnvelope ==
    /\ pc = "route"
    /\ action.py = "str"
    /\ Raise("AttributeError in process")
    /\ UNCHANGED <<mem_vars, max_iterations, iteration, action, queue, log, servers, exit_stack, tasks,
                   calls>>

KnownTypes == {"execute", "save_info", "modify_plan", "mcp", "reply"}

\* a chain whose last branch is taken as a reply
Route_defaultsToReply(type) == IF type \in KnownTypes THEN type ELSE "reply"

\* the if/elif/else chain on action_type (agent.py:184-236): the branch taken
Route(type) == IF type \in KnownTypes THEN type ELSE "else"

Routed(type) ==
    /\ pc = "route"
    /\ action.py = "dict"
    /\ ~NoActionType(action)
    /\ Route(action.type) = type

\* Agent._handle_execute_action and Agent._run_executor
HandleExecute ==
    /\ Routed("execute")
    /\ IF ~action.params.is_dict
       THEN /\ Raise("AttributeError in process")
            /\ UNCHANGED <<task_memory, file, clock, queue, calls>>
       ELSE \E run \in CallOutcomes, cb \in CallbackOutcomes, o \in PersistOutcomes :
            LET action_desc == Get(action.params.d, "action", "")
                r == add_dispatcher_action(task_memory, file, "execute",
                        [action |-> action_desc], None, clock, o)
            IN  /\ calls' = [calls EXCEPT !.executor = @ + 1]
                /\ IF run = "raises"
                   THEN /\ Raise("executor error")
                        /\ UNCHANGED <<task_memory, file, clock, queue>>
                   ELSE IF cb = "raises"
                   THEN /\ Raise("callback error")
                        /\ UNCHANGED <<task_memory, file, clock, queue>>
                   ELSE /\ queue' = send_callback(queue, "executor",
                                        [action |-> action_desc, actions |-> <<"click">>],
                                        FALSE)
                        /\ task_memory' = r.mem
                        /\ file' = r.file
                        /\ clock' = clock + 1
                        /\ IF r.raised THEN Raise("persist error") ELSE Continue
    /\ UNCHANGED <<last_call, max_iterations, iteration, action, log, servers, exit_stack, tasks>>

\* the save_info branch (agent.py:188-199)
HandleSaveInfo ==
    /\ Routed("save_info")
    /\ IF ~action.params.is_dict
       THEN /\ Raise("AttributeError in process")
            /\ UNCHANGED <<task_memory, file, clock>>
       ELSE \E o1 \in PersistOutcomes, o2 \in PersistOutcomes :
            LET key == Get(action.params.d, "key", "")
                value == Get(action.params.d, "value", "")
                r1 == save_info(task_memory, file, key, value, o1)
                r2 == add_dispatcher_action(r1.mem, r1.file, "save_info",
                        [key |-> key, value |-> value], None, clock, o2)
            IN  IF r1.raised
                THEN /\ task_memory' = r1.mem
                     /\ file' = r1.file
                     /\ Raise("persist error")
                     /\ UNCHANGED clock
                ELSE /\ task_memory' = r2.mem
                     /\ file' = r2.file
                     /\ clock' = clock + 1
                     /\ IF r2.raised THEN Raise("persist error") ELSE Continue
    /\ UNCHANGED <<last_call, max_iterations, iteration, action, queue, log, servers, exit_stack, tasks,
                   calls>>

\* the modify_plan branch (agent.py:201-211)
HandleModifyPlan ==
    /\ Routed("modify_plan")
    /\ IF ~action.params.is_dict
       THEN /\ Raise("AttributeError in process")
            /\ UNCHANGED <<task_memory, file, clock>>
       ELSE \E o1 \in PersistOutcomes, o2 \in PersistOutcomes :
            LET new_plan == Get(action.params.d, "new_plan", "")
                r1 == set_plan(task_memory, file, new_plan, o1)
                r2 == add_dispatcher_action(r1.mem, r1.file, "modify_plan",
                        [new_plan |-> new_plan], None, clock, o2)
            IN  IF r1.raised
                THEN /\ task_memory' = r1.mem
                     /\ file' = r1.file
                     /\ Raise("persist error")
                     /\ UNCHANGED clock
                ELSE /\ task_memory' = r2.mem
                     /\ file' = r2.file
                     /\ clock' = clock + 1
                     /\ IF r2.raised THEN Raise("persist error") ELSE Continue
    /\ UNCHANGED <<last_call, max_iterations, iteration, action, queue, log, servers, exit_stack, tasks,
                   calls>>

\* Agent._handle_mcp_action
HandleMcp ==
    /\ Routed("mcp")
    /\ IF ~action.params.is_dict
       THEN /\ Raise("AttributeError in process")
            /\ UNCHANGED <<task_memory, file, clock, queue, calls>>
       ELSE LET server_name == Get(action.params.d, "server", "")
                tool_name == Get(action.params.d, "tool", "")
                tool_params == Get(action.params.d, "params", EmptyDict)
            IN
            IF list_servers(servers) = {}
            THEN \* not self.mcp_client.list_servers(): a failure result is recorded
                 \E o \in PersistOutcomes, cb \in CallbackOutcomes :
                 LET error_msg == "no server available"
                     r == add_dispatcher_action(task_memory, file, "mcp",
                            [server |-> server_name, tool |-> tool_name,
                             params |-> tool_params, success |-> FALSE,
                             error |-> error_msg], None, clock, o)
                 IN  /\ task_memory' = r.mem
                     /\ file' = r.file
                     /\ clock' = clock + 1
                     /\ UNCHANGED calls
                     /\ IF r.raised
                        THEN Raise("persist error") /\ UNCHANGED queue
                        ELSE IF cb = "raises"
                        THEN Raise("callback error") /\ UNCHANGED queue
                        ELSE /\ queue' = send_callback(queue, "mcp",
                                            [server |-> server_name, tool |-> tool_name,
                                             success |-> FALSE, error |-> error_msg],
                                            FALSE)
                             /\ Continue
            ELSE \* try: call_tool, record, callback; except Exception: record, callback
                 \E session \in SessionOutcomes, o1 \in PersistOutcomes,
                    cb1 \in CallbackOutcomes, o2 \in PersistOutcomes,
                    cb2 \in CallbackOutcomes :
                 LET result == call_tool(servers, server_name, tool_name, session).result
                     r1 == add_dispatcher_action(task_memory, file, "mcp",
                            [server |-> server_name, tool |-> tool_name,
                             params |-> tool_params, success |-> result.success,
                             data_summary |->
                                IF result.success THEN result.data ELSE None,
                             error |->
                                IF ~result.success THEN result.error_message ELSE None],
                            None, clock, o1)
                     error_msg == IF r1.raised THEN "persist error" ELSE "callback error"
                     r2 == add_dispatcher_action(r1.mem, r1.file, "mcp",
                            [server |-> server_name, tool |-> tool_name,
                             params |-> tool_params, success |-> FALSE,
                             error |-> error_msg], None, clock + 1, o2)
                     \* the call failed: unknown server, or session.call_tool raised
                     \* and call_tool logged the error (client.py:176, 211-212)
                     tool_error == server_name \notin list_servers(servers)
                                   \/ session = "raises"
                 IN  /\ calls' = [calls EXCEPT !.call_tool = @ + 1,
                                               !.tool_errors =
                                                    @ + (IF tool_error THEN 1 ELSE 0)]
                     /\ IF ~r1.raised /\ cb1 = "ok"
                        THEN /\ task_memory' = r1.mem
                             /\ file' = r1.file
                             /\ clock' = clock + 1
                             /\ queue' = send_callback(queue, "mcp",
                                            [server |-> server_name, tool |-> tool_name,
                                             success |-> result.success,
                                             data |-> result.data,
                                             error |-> IF ~result.success
                                                       THEN result.error_message
                                                       ELSE None],
                                            FALSE)
                             /\ Continue
                        ELSE /\ task_memory' = r2.mem
                             /\ file' = r2.file
                             /\ clock' = clock + 2
                             /\ IF r2.raised
                                THEN Raise("persist error") /\ UNCHANGED queue
                                ELSE IF cb2 = "raises"
                                THEN Raise("callback error") /\ UNCHANGED queue
                                ELSE /\ queue' = send_callback(queue, "mcp",
                                            [server |-> server_name, tool |-> tool_name,
                                             success |-> FALSE, error |-> error_msg],
                                            FALSE)
                                     /\ Continue
    /\ UNCHANGED <<last_call, max_iterations, iteration, action, log, servers, exit_stack, tasks>>

\* the reply branch (agent.py:217-233): record, send with is_complete=True, break
HandleReply ==
    /\ Routed("reply")
    /\ IF ~action.params.is_dict
       THEN /\ Raise("AttributeError in process")
            /\ UNCHANGED <<task_memory, file, clock, queue>>
       ELSE \E o \in PersistOutcomes, cb \in CallbackOutcomes :
            LET reply_message == Get(action.params.d, "message", DefaultReply)
                r == add_dispatcher_action(task_memory, file, "reply",
                        [message |-> reply_message], None, clock, o)
            IN  /\ task_memory' = r.mem
                /\ file' = r.file
                /\ clock' = clock + 1
                /\ IF r.raised
                   THEN Raise("persist error") /\ UNCHANGED queue
                   ELSE IF cb = "raises"
                   THEN Raise("callback error") /\ UNCHANGED queue
                   ELSE /\ queue' = send_callback(queue, "reply",
                                        [message |-> reply_message], TRUE)
                        /\ pc' = "after_loop"
                        /\ UNCHANGED exc
    /\ UNCHANGED <<last_call, max_iterations, iteration, action, log, servers, exit_stack, tasks, calls>>

\* the else branch (agent.py:235-236): a warning, nothing else
HandleUnknown ==
    /\ Routed("else")
    /\ log' = log \cup {"unknown action type"}
    /\ Continue
    /\ UNCHANGED <<mem_vars, max_iterations, iteration, action, queue, servers, exit_stack, tasks, calls>>

\* after the loop (agent.py:240-243)
AfterLoop ==
    /\ pc = "after_loop"
    /\ log' = log \cup (IF iteration >= max_iterations
                        THEN {"max iterations reached"} ELSE {})
                  \cup {"task finished"}
    /\ pc' = "finally"
    /\ UNCHANGED <<mem_vars, max_iterations, iteration, action, exc, queue, servers, exit_stack, tasks,
                   calls>>

\* except Exception as e: log; raise (agent.py:245-247)
Except ==
    /\ pc = "except"
    /\ log' = log \cup {"task failed"}
    /\ pc' = "finally"
    /\ UNCHANGED <<mem_vars, max_iterations, iteration, action, exc, queue, servers, exit_stack, tasks,
                   calls>>

\* finally: close_all() inside try/except (agent.py:248-255); an exception of
\* close_all is logged and goes no further
Finally ==
    /\ pc = "finally"
    /\ calls' = [calls EXCEPT !.close_all = @ + 1]
    /\ \E teardown \in [DOMAIN exit_stack -> CallOutcomes] :
        LET r == close_all(servers, exit_stack, teardown)
        IN  /\ servers' = r.registry
            /\ exit_stack' = r.stack
            /\ log' = log \cup (IF r.raised THEN {"close failed"} ELSE {})
    /\ pc' = IF exc = None THEN "returned" ELSE "raised"
    /\ UNCHANGED <<mem_vars, max_iterations, iteration, action, exc, queue, tasks>>

\* agent_task (handlers.py:134-148): an exception of process becomes an error
\* StreamMessage; then the end marker None is put
AgentTask ==
    /\ pc \in {"returned", "raised"}
    /\ queue' = IF pc = "raised"
                THEN Append(queue, StreamMessage("error", [error |-> exc], FALSE, TRUE))
                ELSE queue
    /\ pc' = "done"
    /\ UNCHANGED <<mem_vars, max_iterations, iteration, action, exc, log, servers, exit_stack, tasks,
                   calls>>

Next ==
    \/ InitMcp
    \/ RunInitialPlan
    \/ RunDispatcher
    \/ LoopExit
    \/ NoAction
    \/ BadEnvelope
    \/ HandleExecute
    \/ HandleSaveInfo
    \/ HandleModifyPlan
    \/ HandleMcp
    \/ HandleReply
    \/ HandleUnknown
    \/ AfterLoop
    \/ Except
    \/ Finally
    \/ AgentTask

Spec == Init /\ [][Next]_vars

\* Spec when every awaited call (reasoning, executor, tool, callback,
\* shutdown) returns or raises: a step that can be taken is taken
FairSpec == Spec /\ WF_vars(Next)

-----------------------------------------------------------------------------
(* ServerSpec: the agent tasks one server process starts. Each request makes  *)
(* asyncio.create_task(agent_task()) (handlers.py:151); every Agent takes the  *)
(* manager from get_mcp_client_manager() (agent.py:115, client.py:246-259), so *)
(* servers and exit_stack are shared by the tasks. A task gives way to the     *)
(* others where Agent.process awaits: run_in_executor for the plan, the        *)
(* dispatch and the executor, session.call_tool, and aclose.                   *)

\* the requests served by the process
TaskIds == {1, 2}
\* ServerSpec: max_iterations of each task
MaxTaskIterations == 1
\* what a decision makes the step do
DecisionKinds == {"mcp", "execute", "reply", "no_action"}

\* a request whose agent_task has not started; consumer: whether the caller is
\* still reading the stream of _run_agent; using: the session of the call_tool
\* in flight
NewTask == [pc |-> "new", iteration |-> 0, consumer |-> "consuming", using |-> 0]

srv_frame == <<task_memory, file, last_call, pc, max_iterations, iteration, action,
               exc, queue, log, calls>>

ServerInit ==
    /\ pc = "idle"
    /\ max_iterations = 0
    /\ iteration = 0
    /\ action = NoEnvelope
    /\ exc = None
    /\ queue = <<>>
    /\ log = {}
    /\ servers = NoServers
    /\ exit_stack = <<>>
    /\ tasks = [t \in TaskIds |-> NewTask]
    /\ calls = NoCalls
    /\ task_memory = TaskContextMemory("task", "query", RunFolder, 0)
    /\ file = NoFile
    /\ clock = 1
    /\ last_call = NoCall

\* the task goes to position p
Goto(t, p) == tasks' = [tasks EXCEPT ![t].pc = p]

\* agent_task starts: Agent(send_callback, agent_config) and process()
\* (handlers.py:136-137)
StartTask ==
    \E t \in TaskIds :
        /\ tasks[t].pc = "new"
        /\ Goto(t, "init_mcp")
        /\ UNCHANGED <<servers, exit_stack, clock>>
        /\ UNCHANGED srv_frame

\* Agent._init_mcp on the shared manager; a task may have no server configured
TaskInitMcp ==
    \E t \in TaskIds :
        /\ tasks[t].pc = "init_mcp"
        /\ \/ UNCHANGED <<servers, exit_stack>>
           \/ \E outcome \in AddOutcomes :
                LET name == CHOOSE n \in ConfiguredServers : TRUE
                    r == add_server(servers, exit_stack, name, McpServers[name],
                                    outcome, t)
                IN  /\ Len(exit_stack) + 2 <= MaxContexts
                    /\ servers' = r.registry
                    /\ exit_stack' = r.stack
        /\ Goto(t, "plan")
        /\ UNCHANGED clock
        /\ UNCHANGED srv_frame

\* Agent._run_initial_plan returns, or raises to the except/finally of process
TaskPlan ==
    \E t \in TaskIds :
        /\ tasks[t].pc = "plan"
        /\ \E llm \in CallOutcomes :
                Goto(t, IF llm = "raises" THEN "finally" ELSE "loop")
        /\ UNCHANGED <<servers, exit_stack, clock>>
        /\ UNCHANGED srv_frame

\* while iteration < max_iterations: iteration += 1; the dispatch call starts
TaskBeginDispatch ==
    \E t \in TaskIds :
        /\ tasks[t].pc = "loop"
        /\ LoopTest(tasks[t].iteration, MaxTaskIterations)
        /\ tasks' = [tasks EXCEPT ![t].pc = "dispatching",
                                  ![t].iteration = @ + 1]
        /\ UNCHANGED <<servers, exit_stack, clock>>
        /\ UNCHANGED srv_frame

\* the while test fails
TaskLoopExit ==
    \E t \in TaskIds :
        /\ tasks[t].pc = "loop"
        /\ ~LoopTest(tasks[t].iteration, MaxTaskIterations)
        /\ Goto(t, "finally")
        /\ UNCHANGED <<servers, exit_stack, clock>>
        /\ UNCHANGED srv_frame

\* the dispatch call returns a decision, or raises; reply and an empty action
\* break the loop
TaskEndDispatch ==
    \E t \in TaskIds :
        /\ tasks[t].pc = "dispatching"
        /\ \E llm \in CallOutcomes, kind \in DecisionKinds :
                Goto(t, CASE llm = "raises" -> "finally"
                          [] kind = "mcp" -> "mcp"
                          [] kind = "execute" -> "execute"
                          [] OTHER -> "finally")
        /\ UNCHANGED <<servers, exit_stack, clock>>
        /\ UNCHANGED srv_frame

\* _handle_mcp_action up to the await of session.call_tool: with no server
\* listed, or a name that is not registered, the step ends without a call
TaskBeginCallTool ==
    \E t \in TaskIds, name \in ServerNames :
        /\ tasks[t].pc = "mcp"
        /\ IF list_servers(servers) = {}
              \/ ~call_tool(servers, name, "t1", "ok").contacted
           THEN Goto(t, "loop")
           ELSE tasks' = [tasks EXCEPT ![t].pc = "call_tool",
                                       ![t].using = servers[name].session]
        /\ UNCHANGED <<servers, exit_stack, clock>>
        /\ UNCHANGED srv_frame

\* session.call_tool returns or raises; call_tool returns a result either way
TaskEndCallTool ==
    \E t \in TaskIds :
        /\ tasks[t].pc = "call_tool"
        /\ tasks' = [tasks EXCEPT ![t].pc = "loop", ![t].using = 0]
        /\ UNCHANGED <<servers, exit_stack, clock>>
        /\ UNCHANGED srv_frame

\* _handle_execute_action: the executor call starts
TaskBeginExecute ==
    \E t \in TaskIds :
        /\ tasks[t].pc = "execute"
        /\ Goto(t, "executing")
        /\ UNCHANGED <<servers, exit_stack, clock>>
        /\ UNCHANGED srv_frame

\* the executor call returns, or raises
TaskEndExecute ==
    \E t \in TaskIds :
        /\ tasks[t].pc = "executing"
        /\ \E executor \in CallOutcomes :
                Goto(t, IF executor = "raises" THEN "finally" ELSE "loop")
        /\ UNCHANGED <<servers, exit_stack, clock>>
        /\ UNCHANGED srv_frame

\* finally: close_all() starts: self._servers.clear(), then aclose() is awaited
TaskBeginCloseAll ==
    \E t \in TaskIds :
        /\ tasks[t].pc = "finally"
        /\ servers' = NoServers
        /\ Goto(t, "closing")
        /\ UNCHANGED <<exit_stack, clock>>
        /\ UNCHANGED srv_frame

\* aclose() has exited every context on the shared exit stack; process ends and
\* agent_task puts the end marker
TaskEndCloseAll ==
    \E t \in TaskIds :
        /\ tasks[t].pc = "closing"
        /\ \E teardown \in [DOMAIN exit_stack -> CallOutcomes] :
                exit_stack' = aclose(exit_stack, teardown).stack
        /\ Goto(t, "done")
        /\ UNCHANGED <<servers, clock>>
        /\ UNCHANGED srv_frame

\* the caller of execute_task goes away (disconnect, cancelled request): the
\* generator of _run_agent is closed; agent_task is a task of its own that
\* nothing holds or cancels (handlers.py:151)
Cancel ==
    \E t \in TaskIds :
        /\ tasks[t].pc \notin {"new", "done"}
        /\ tasks[t].consumer = "consuming"
        /\ tasks' = [tasks EXCEPT ![t].consumer = "gone"]
        /\ UNCHANGED <<servers, exit_stack, clock>>
        /\ UNCHANGED srv_frame

ServerNext ==
    \/ StartTask
    \/ TaskInitMcp
    \/ TaskPlan
    \/ TaskBeginDispatch
    \/ TaskLoopExit
    \/ TaskEndDispatch
    \/ TaskBeginCallTool
    \/ TaskEndCallTool
    \/ TaskBeginExecute
    \/ TaskEndExecute
    \/ TaskBeginCloseAll
    \/ TaskEndCloseAll
    \/ Cancel

ServerSpec == ServerInit /\ [][ServerNext]_vars

-----------------------------------------------------------------------------
(* Properties of the Task Context Memory, checked under MemSpec *)

Min(a, b) == IF a <= b THEN a ELSE b

Mutators == {"set_plan", "save_info", "add_dispatcher_action"}

\* s is t with zero or more elements appended
IsPrefix(s, t) == Len(s) <= Len(t) /\ SubSeq(t, 1, Len(s)) = s

\* C7: get_all_actions returns the records in call order, and for every
\* n >= 0 get_recent_actions(n) returns exactly the last min(n, len) records in
\* the same order, never more than n.
C7_RecentWindow ==
    LET all == task_memory.dispatcher_actions IN
    /\ last_call.op = "get_all_actions" => last_call.result = all
    /\ last_call.op = "get_recent_actions" =>
            LET n == last_call.arg[1]
                k == Min(n, Len(all))
            IN  /\ last_call.result = SubSeq(all, Len(all) - k + 1, Len(all))
                /\ Len(last_call.result) <= n

\* C8: the history is append-only.  In every state current_step is the number
\* of recorded actions; add_dispatcher_action adds exactly one record at the end
\* and one to current_step; every other memory operation leaves both untouched.
C8_AppendOnly ==
    /\ [](task_memory.current_step = Len(task_memory.dispatcher_actions))
    /\ [][LET old == task_memory.dispatcher_actions
              new == task_memory'.dispatcher_actions
          IN  /\ IsPrefix(old, new)
              /\ IF last_call'.op = "add_dispatcher_action"
                 THEN /\ Len(new) = Len(old) + 1
                      /\ new[Len(new)].action_type = last_call'.arg[1].action_type
                      /\ new[Len(new)].params = last_call'.arg[1].params
                      /\ task_memory'.current_step = task_memory.current_step + 1
                 ELSE /\ new = old
                      /\ task_memory'.current_step = task_memory.current_step]_vars

\* a set_plan has just run on a history of two or more records
C8_Witness ==
    /\ last_call.op = "set_plan"
    /\ Len(task_memory.dispatcher_actions) >= 2
    /\ task_memory.current_step = Len(task_memory.dispatcher_actions)

\* C9: what memory.json holds always loads to the in-memory state of the last
\* successful persist: after a successful persist the file loads back to the
\* memory as it is and serializes again to the same document, and a failed
\* persist leaves a readable file exactly as it was.
C9_RoundTrip ==
    [][last_call'.op \in Mutators =>
        /\ last_call'.outcome = "ok" =>
                /\ load_file(file', RunFolder) = <<task_memory'>>
                /\ <<to_dict(load_file(file', RunFolder)[1])>> = file'.text
        /\ (last_call'.outcome # "ok" /\ load_file(file, RunFolder) # <<>>) =>
                file' = file]_vars

\* C10: set_plan, save_info and add_dispatcher_action persist the full state
\* after applying their change; when the persist fails they return without
\* raising and the change stays in memory.
C10_PersistFailureSwallowed ==
    [][last_call'.op \in Mutators =>
        /\ ~last_call'.raised
        /\ last_call'.op = "set_plan" =>
                task_memory'.current_plan = last_call'.arg[1]
        /\ last_call'.op = "save_info" =>
                /\ last_call'.arg[1] \in DOMAIN task_memory'.saved_info
                /\ task_memory'.saved_info[last_call'.arg[1]] = last_call'.arg[2]
        /\ last_call'.op = "add_dispatcher_action" =>
                /\ Len(task_memory'.dispatcher_actions)
                        = Len(task_memory.dispatcher_actions) + 1
                /\ task_memory'.dispatcher_actions[Len(task_memory'.dispatcher_actions)]
                        .params = last_call'.arg[1].params
        /\ last_call'.outcome = "ok" => file' = WrittenFile(to_dict(task_memory'))
        /\ last_call'.outcome = "open_fails" => file' = file
        /\ last_call'.outcome = "write_fails" => file' = PartialFile]_vars

\* a save_info whose persist failed has returned: the value is in memory and
\* the file does not hold it
C10_Witness ==
    /\ last_call.op = "save_info"
    /\ last_call.outcome = "write_fails"
    /\ ~last_call.raised
    /\ task_memory.saved_info["k"] = last_call.arg[2]
    /\ file = PartialFile
    /\ Len(task_memory.dispatcher_actions) >= 1

-----------------------------------------------------------------------------
(* Properties of Agent.process, checked under Spec *)

Recorded == task_memory.dispatcher_actions

HasReplyRecord == \E i \in DOMAIN Recorded : Recorded[i].action_type = "reply"

IsTerminal(msg) == msg.is_complete \/ msg.is_error

\* C1: with max_iterations = N, no (N+1)-th dispatch call is ever made; and a
\* run in which every dispatch returned an action with a type other than reply
\* (and no collaborator raised) ends after exactly N dispatch calls with the
\* 'max iterations reached' outcome.
C1_ExactlyNDispatches ==
    /\ calls.dispatch <= max_iterations
    /\ (pc = "done" /\ exc = None /\ "empty action" \notin log /\ ~HasReplyRecord) =>
            /\ calls.dispatch = max_iterations
            /\ "max iterations reached" \in log

\* a run of MaxIterations iterations without reply has ended
C1_Witness ==
    /\ pc = "done"
    /\ exc = None
    /\ "empty action" \notin log
    /\ ~HasReplyRecord
    /\ max_iterations = MaxIterations
    /\ calls.dispatch = MaxIterations
    /\ Len(Recorded) = MaxIterations

\* C2: a reply decision appends one record of kind reply carrying the message,
\* then sends the message with is_complete set, then leaves the loop; after a
\* reply was recorded no dispatch call follows; and every message with
\* is_complete set is the reply of a recorded reply action and the last
\* message of the run.
C2_Reply ==
    /\ [](/\ \A i \in DOMAIN queue :
                queue[i].is_complete =>
                    /\ queue[i].role = "reply"
                    /\ i = Len(queue)
                    /\ Len(Recorded) >= 1
                    /\ Recorded[Len(Recorded)].action_type = "reply"
                    /\ Recorded[Len(Recorded)].params = queue[i].output
          /\ HasReplyRecord => pc \notin {"init_mcp", "initial_plan", "loop", "route"})
    /\ [][(pc = "route" /\ action.py = "dict" /\ action.type = "reply"
                /\ action.params.is_dict) =>
            LET message == IF "message" \in DOMAIN action.params.d
                           THEN action.params.d.message ELSE DefaultReply
                new == task_memory'.dispatcher_actions
            IN  /\ Len(new) = Len(Recorded) + 1
                /\ SubSeq(new, 1, Len(Recorded)) = Recorded
                /\ new[Len(new)].action_type = "reply"
                /\ new[Len(new)].params = [message |-> message]
                /\ calls' = calls
                /\ \/ /\ pc' = "after_loop"
                      /\ exc' = None
                      /\ queue' = Append(queue, StreamMessage("reply",
                                            [message |-> message], TRUE, FALSE))
                   \/ /\ pc' = "except"
                      /\ exc' = "callback error"
                      /\ queue' = queue]_vars

\* a run has ended whose second decision was the reply "done"
C2_Witness ==
    /\ pc = "done"
    /\ calls.dispatch = 2
    /\ Len(queue) >= 1
    /\ queue[Len(queue)].is_complete
    /\ queue[Len(queue)].output = [message |-> "done"]
    /\ Len(Recorded) = 2

\* C3: every run delivers exactly one terminal notification (is_complete or
\* is_error), also a run that ends on an empty action or on the iteration
\* budget.
C3_OneTerminalNotification ==
    pc = "done" => Cardinality({i \in DOMAIN queue : IsTerminal(queue[i])}) = 1

\* C4: a decision without envelope or without type ends the loop at that step:
\* no exception, no record appended, no plan or saved_info change, no further
\* dispatch call.
C4_NoActionQuietStop ==
    /\ []("empty action" \in log =>
            /\ exc = None
            /\ pc \in {"after_loop", "finally", "returned", "done"})
    /\ [][(/\ pc = "route"
           /\ \/ action.py = "None"
              \/ action.py = "dict" /\ (action.empty \/ action.type = None)) =>
            /\ pc' = "after_loop"
            /\ exc' = None
            /\ "empty action" \in log'
            /\ task_memory' = task_memory
            /\ file' = file
            /\ queue' = queue
            /\ calls' = calls]_vars

\* a run has ended on a second decision that had params and no type
C4_Witness ==
    /\ pc = "done"
    /\ "empty action" \in log
    /\ calls.dispatch = 2
    /\ action.py = "dict"
    /\ ~action.empty
    /\ action.type = None
    /\ Len(Recorded) = 1

\* C5: _parse_dispatch_response never raises, whatever text the reasoning
\* client returned, so no run fails with an exception of the parser.
C5_ParseNeverRaises ==
    exc # "AttributeError in _parse_dispatch_response"

\* C6: the initial plan call is made exactly once, before the first dispatch
\* call; the loop is entered only after the plan was stored in the memory and
\* notified.
C6_InitialPlanOnce ==
    /\ calls.plan <= 1
    /\ pc \notin {"init_mcp", "initial_plan", "idle"} => calls.plan = 1
    /\ (calls.dispatch >= 1 \/ pc \in {"loop", "route"}) =>
            /\ calls.plan = 1
            /\ Len(queue) >= 1
            /\ queue[1].role = "planner"
            /\ "plan" \in DOMAIN queue[1].output
    /\ (pc = "loop" /\ iteration = 0) =>
            task_memory.current_plan = queue[1].output.plan

\* the first dispatch call has returned, with the plan of the plan call stored
C6_Witness ==
    /\ pc = "route"
    /\ calls.plan = 1
    /\ calls.dispatch = 1
    /\ task_memory.current_plan = "plan_a"
    /\ queue[1].output.plan = "plan_a"

-----------------------------------------------------------------------------
(* Properties of the tool manager, checked under MgrSpec *)

\* C11: call_tool with a server name that is not in the registry returns a
\* result with success = false and a 'not found' error message, raises nothing,
\* makes no call on any session, and leaves the registry (and the exit stack)
\* as they were.
C11_UnknownServerNotFound ==
    [][(last_call'.op = "call_tool" /\ last_call'.arg[1] \notin list_servers(servers))
        => /\ ~last_call'.raised
           /\ ~last_call'.result[1].contacted
           /\ last_call'.result[1].result.success = FALSE
           /\ last_call'.result[1].result.error_message = "not found"
           /\ last_call'.result[1].result.server_name = last_call'.arg[1]
           /\ servers' = servers
           /\ exit_stack' = exit_stack]_vars

\* call_tool on an unregistered name while another server is registered
C11_Witness ==
    /\ last_call.op = "call_tool"
    /\ last_call.arg[1] \notin list_servers(servers)
    /\ list_servers(servers) # {}
    /\ ~last_call.result[1].contacted
    /\ ~last_call.result[1].result.success

\* C12: add_server never raises; when it returns false (no command in the
\* configuration, launch, session, handshake or catalog failure) the registry
\* is the one before the call; the registry changes only in a call in which
\* launch, handshake and catalog fetch all succeeded, and then the name is
\* registered with its configuration, its catalog and the session just opened.
C12_AddServerFailsClean ==
    [][last_call'.op = "add_server"
        => LET name == last_call'.arg[1]
               config == last_call'.arg[2]
           IN  /\ ~last_call'.raised
               /\ last_call'.result[1] = FALSE => servers' = servers
               /\ last_call'.result[1] = (config # "no_command"
                                          /\ last_call'.outcome = "ok")
               /\ last_call'.result[1] = TRUE =>
                    /\ list_servers(servers') = list_servers(servers) \cup {name}
                    /\ servers'[name].config = config
                    /\ servers'[name].tools = Catalog(config)
                    /\ exit_stack'[servers'[name].session] =
                            Context("session", name, Caller)
                    /\ \A n \in list_servers(servers) \ {name} :
                            servers'[n] = servers[n]]_vars

\* an add_server that failed at the catalog fetch while a server was registered
C12_Witness ==
    /\ last_call.op = "add_server"
    /\ last_call.outcome = "catalog_fails"
    /\ last_call.arg[2] # "no_command"
    /\ last_call.result[1] = FALSE
    /\ list_servers(servers) # {}
    /\ last_call.arg[1] \notin list_servers(servers)

\* C13: when add_server succeeds for a name that is already registered, the
\* new entry replaces the old one and the manager's state for the name is that
\* of a single add_server: one listing entry with the new configuration and
\* catalog, and the session (with its transport) of the replaced entry is no
\* longer held open.
C13_ReAddOverwrites ==
    [][(/\ last_call'.op = "add_server"
        /\ last_call'.result[1] = TRUE
        /\ last_call'.arg[1] \in list_servers(servers))
        => LET name == last_call'.arg[1]
               old == servers[name].session
           IN  /\ servers'[name].config = last_call'.arg[2]
               /\ servers'[name].tools = Catalog(last_call'.arg[2])
               /\ exit_stack'[old].state # "open"
               /\ exit_stack'[old - 1].state # "open"]_vars

\* C14: remove_server never raises; after it the name is not registered; the
\* session and the transport that were opened for a registered name are closed;
\* for a name that is not registered nothing changes.
C14_RemoveTearsDown ==
    [][last_call'.op = "remove_server"
        => LET name == last_call'.arg[1]
           IN  /\ ~last_call'.raised
               /\ name \notin list_servers(servers')
               /\ name \notin list_servers(servers) =>
                    (servers' = servers /\ exit_stack' = exit_stack)
               /\ name \in list_servers(servers) =>
                    /\ exit_stack'[servers[name].session].state = "closed"
                    /\ exit_stack'[servers[name].session - 1].state = "closed"]_vars

\* C15: close_all never raises, with no session open and when the teardown
\* of one or more contexts fails.
C15_CloseAllNeverRaises ==
    last_call.op = "close_all" => ~last_call.raised

-----------------------------------------------------------------------------
(* Properties of the tool manager inside one run, checked under Spec *)

ProcessEnded == pc \in {"returned", "raised", "done"}

\* C16: after Agent.process ended, on any exit path, the registry is empty and
\* no context the manager entered (transport or session) is still open: each
\* was exited, and a context is marked failed only if its own teardown raised,
\* so a teardown that raises does not keep the others from being closed.
C16_ShutdownClosesAll ==
    ProcessEnded =>
        /\ list_servers(servers) = {}
        /\ \A i \in DOMAIN exit_stack : exit_stack[i].state \in {"closed", "failed"}
        /\ ("close failed" \in log) =
                (\E i \in DOMAIN exit_stack : exit_stack[i].state = "failed")

\* a run with a connected server that ended by an exception; the teardown of
\* the session raised and the transport was closed all the same
C16_Witness ==
    /\ pc = "done"
    /\ exc # None
    /\ Len(exit_stack) = 2
    /\ exit_stack[2].state = "failed"
    /\ exit_stack[1].state = "closed"
    /\ list_servers(servers) = {}

\* C17: a step that handles an mcp decision appends exactly one Recorded Action
\* for the requested server and tool. With no server registered it does not
\* call call_tool and the record carries success = false with an error; with a
\* server registered it calls call_tool exactly once and the record carries the
\* outcome of the call. The loop then continues (unless the observer callback
\* raised).
C17_McpStep ==
    [][(Routed("mcp") /\ action.params.is_dict)
        => LET n == Len(Recorded)
               recorded == task_memory'.dispatcher_actions
           IN  /\ Len(recorded) = n + 1
               /\ recorded[n + 1].action_type = "mcp"
               /\ recorded[n + 1].params.server = Get(action.params.d, "server", "")
               /\ recorded[n + 1].params.tool = Get(action.params.d, "tool", "")
               /\ IF list_servers(servers) = {}
                  THEN /\ calls'.call_tool = calls.call_tool
                       /\ recorded[n + 1].params.success = FALSE
                       /\ recorded[n + 1].params.error # None
                  ELSE /\ calls'.call_tool = calls.call_tool + 1
                       /\ recorded[n + 1].params.success \in BOOLEAN
               /\ pc' = "loop" \/ exc' = "callback error"]_vars

-----------------------------------------------------------------------------
(* Properties of the tasks of one process, checked under ServerSpec *)

\* task t awaits session.call_tool / has started close_all and awaits aclose
InFlight(t) == tasks[t].pc = "call_tool"
Closing(t) == tasks[t].pc = "closing"
\* close_all has been started on the manager
CloseStarted == \E t \in TaskIds : tasks[t].pc \in {"closing", "done"}

\* C18: the close_all of a manager never runs while a call_tool on that manager
\* is in flight, and no call_tool is issued on the manager once its close_all
\* has started.
C18_CloseAfterCalls ==
    /\ [](\A t, u \in TaskIds : ~(Closing(t) /\ InFlight(u)))
    /\ [][\A t \in TaskIds :
            (tasks[t].pc # "call_tool" /\ tasks'[t].pc = "call_tool")
                => ~CloseStarted]_vars

\* C19: two tasks never share a live tool session: the session a task's
\* call_tool uses was opened by that task, and a context (session or transport)
\* is closed only by the close_all of the task that opened it.
C19_NoCrossTaskSharing ==
    /\ [](\A t \in TaskIds :
            InFlight(t) => exit_stack[tasks[t].using].by = t)
    /\ [][\A i \in DOMAIN exit_stack :
            (exit_stack[i].state = "open" /\ exit_stack'[i].state # "open")
                => \E t \in TaskIds :
                        /\ Closing(t)
                        /\ tasks'[t].pc = "done"
                        /\ exit_stack[i].by = t]_vars

\* C20: once the caller of a task is gone, the task starts no new dispatch
\* call, executor call or tool call; a call already in flight may complete.
C20_CancelStopsScheduling ==
    [][\A t \in TaskIds :
        tasks[t].consumer = "gone"
            => /\ tasks'[t].iteration = tasks[t].iteration
               /\ tasks'[t].pc \in {"dispatching", "call_tool", "executing"}
                    => tasks'[t].pc = tasks[t].pc]_vars

-----------------------------------------------------------------------------
(* Error handling and step effects of the loop, checked under Spec *)

\* the Decision of the current step came from a text json.loads rejected
ParseFailure ==
    /\ pc = "route"
    /\ queue[Len(queue)].output.thinking = ParseFailed

\* C21 (as claimed): after a parse failure the loop continues with the next
\* iteration while budget remains; the failure does not end the run.
C21_ParseFailureContinues ==
    [][(ParseFailure /\ iteration < max_iterations) => pc' = "loop"]_vars

\* C21 (amended): a response text that is not valid JSON becomes the Decision
\* 'parse failed' with an empty action envelope, and the step that handles it
\* is the quiet no-action stop: the loop is left, even while budget remains,
\* with no exception and with memory, file, notifications and call counts as
\* they were.
C21_ParseFailureQuietStop ==
    /\ [](ParseFailure => (action = EmptyEnvelope /\ exc = None))
    /\ [][ParseFailure =>
            /\ pc' = "after_loop"
            /\ exc' = None
            /\ "empty action" \in log'
            /\ task_memory' = task_memory
            /\ file' = file
            /\ queue' = queue
            /\ calls' = calls]_vars

\* a run stopped on a parse failure in its first iteration, budget remaining
C21_Witness ==
    /\ pc = "done"
    /\ exc = None
    /\ iteration = 1
    /\ max_iterations = 2
    /\ queue[Len(queue)].role = "planner"
    /\ queue[Len(queue)].output.thinking = ParseFailed
    /\ "empty action" \in log

\* C22: the 'stopped, not finished' outcome (the warning that the maximum
\* iteration count was reached) is reported for every run whose budget ran out
\* without a reply, and never together with a reply: no run delivers a reply
\* and also reports the stopped outcome.
C22_StoppedDistinctFromReply ==
    /\ "max iterations reached" \in log =>
            /\ ~HasReplyRecord
            /\ \A i \in DOMAIN queue : ~queue[i].is_complete
    /\ (/\ pc = "done"
        /\ exc = None
        /\ calls.dispatch = max_iterations
        /\ ~HasReplyRecord
        /\ "empty action" \notin log) => "max iterations reached" \in log

\* C23: a failed tool call (the server is not registered, or session.call_tool
\* raised) does not end the run: the step's Recorded Action carries
\* success = false and the error message, the failure raises nothing out of the
\* tool handler (the only exception that can leave it is one the observer
\* callback raised while being notified), a tool notification with
\* success = false is emitted and the loop goes on to its next test.
C23_ToolFailureContinues ==
    [][(/\ Routed("mcp")
        /\ action.params.is_dict
        /\ calls'.tool_errors = calls.tool_errors + 1)
        => LET n == Len(Recorded)
               recorded == task_memory'.dispatcher_actions
           IN  /\ Len(recorded) > n
               /\ recorded[n + 1].action_type = "mcp"
               /\ recorded[n + 1].params.success = FALSE
               /\ recorded[n + 1].params.error \in {"not found", "session error"}
               /\ exc' \in {None, "callback error"}
               /\ exc' = None =>
                    /\ pc' = "loop"
                    /\ Len(queue') = Len(queue) + 1
                    /\ queue'[Len(queue')].role = "mcp"
                    /\ queue'[Len(queue')].output.success = FALSE
                    /\ ~IsTerminal(queue'[Len(queue')])]_vars

\* a session call raised in the first iteration, the failure was recorded and
\* notified, and the loop went on to a second dispatch
C23_Witness ==
    /\ calls.tool_errors = 1
    /\ calls.dispatch = 2
    /\ Len(Recorded) >= 1
    /\ Recorded[1].action_type = "mcp"
    /\ Recorded[1].params.error = "session error"
    /\ \E i \in DOMAIN queue : queue[i].role = "mcp" /\ queue[i].output.success = FALSE

\* the error notifications on the caller's queue
ErrorNotifications == {i \in DOMAIN queue : queue[i].is_error}

\* C24 (as claimed): every uncaught exception, that of the manager's shutdown
\* during cleanup included, is surfaced to the caller as an error notification.
C24_EveryFailureSurfaced ==
    (pc = "done" /\ (exc # None \/ "close failed" \in log))
        => ErrorNotifications # {}

\* C24 (amended): an exception raised inside the try body of process (by a
\* reasoning call, the parser, the input executor or the observer callback)
\* is surfaced as exactly one notification marked as error, the last one
\* delivered; once it is raised no iteration starts and the memory and the
\* persisted file stay as they were; an exception of close_all during cleanup
\* is logged and surfaces nothing.
C24_ExceptionSurfaced ==
    /\ [](pc = "done" =>
            IF exc # None
            THEN /\ ErrorNotifications = {Len(queue)}
                 /\ queue[Len(queue)].role = "error"
                 /\ queue[Len(queue)].output.error = exc
                 /\ \A i \in DOMAIN queue : ~queue[i].is_complete
            ELSE ErrorNotifications = {})
    /\ [][exc # None =>
            /\ exc' = exc
            /\ calls'.dispatch = calls.dispatch
            /\ calls'.executor = calls.executor
            /\ calls'.call_tool = calls.call_tool
            /\ iteration' = iteration
            /\ task_memory' = task_memory
            /\ file' = file
            /\ queue' # queue => (pc = "raised" /\ pc' = "done")]_vars

\* the executor raised in the second iteration, after the first step had been
\* recorded and persisted; close_all raised during cleanup as well
C24_Witness ==
    /\ pc = "done"
    /\ exc = "executor error"
    /\ "close failed" \in log
    /\ calls.dispatch = 2
    /\ Len(Recorded) = 1
    /\ file = WrittenFile(to_dict(task_memory))
    /\ queue[Len(queue)].is_error

\* the Dispatcher is about to run _handle_execute_action on a params map
ExecuteStep ==
    /\ pc = "route"
    /\ action.py = "dict"
    /\ ~NoActionType(action)
    /\ action.type = "execute"
    /\ action.params.is_dict

\* C25: an execute step calls the Input Executor exactly once and, when it
\* completes, has appended one Recorded Action of kind execute that carries
\* the description and the list of primitive actions the executor performed
\* (the list the executor notification announces).
C25_ExecuteRecordsPrimitives ==
    [][ExecuteStep =>
        /\ calls'.executor = calls.executor + 1
        /\ pc' = "loop" =>
            LET rec == task_memory'.dispatcher_actions[Len(task_memory'.dispatcher_actions)]
                msg == queue'[Len(queue')]
            IN  /\ Len(task_memory'.dispatcher_actions) = Len(Recorded) + 1
                /\ rec.action_type = "execute"
                /\ rec.params.action = action.params.d.action
                /\ \/ /\ "actions" \in DOMAIN rec.params
                      /\ rec.params.actions = msg.output.actions
                   \/ /\ rec.result # None
                      /\ rec.result = msg.output.actions]_vars

\* C25 as the code has it: an execute step calls the Input Executor exactly
\* once, and no other step calls it; when the executor and its notification
\* return, the step appends exactly one Recorded Action of kind execute whose
\* params are the description alone and whose result is empty, after one
\* executor notification that carries the description and the primitive
\* actions; when the executor or the notification raises nothing is recorded.
C25_ExecuteRecordsDescription ==
    /\ [][ExecuteStep =>
            /\ calls'.executor = calls.executor + 1
            /\ pc' \in {"loop", "except"}
            /\ IF pc' = "loop" \/ exc' = "persist error"
               THEN LET rec == task_memory'.dispatcher_actions[Len(task_memory'.dispatcher_actions)]
                        msg == queue'[Len(queue')]
                    IN  /\ Len(task_memory'.dispatcher_actions) = Len(Recorded) + 1
                        /\ SubSeq(task_memory'.dispatcher_actions, 1, Len(Recorded)) = Recorded
                        /\ task_memory'.current_step = task_memory.current_step + 1
                        /\ rec.action_type = "execute"
                        /\ rec.params = [action |-> action.params.d.action]
                        /\ rec.result = None
                        /\ Len(queue') = Len(queue) + 1
                        /\ msg.role = "executor"
                        /\ msg.output.action = action.params.d.action
                        /\ msg.output.actions # <<>>
               ELSE /\ task_memory' = task_memory
                    /\ file' = file
                    /\ queue' = queue]_vars
    /\ [][calls'.executor # calls.executor => ExecuteStep]_vars

\* an execute step has completed: one executor call, one execute record with
\* the description "click", and the notification with the primitive actions
C25_Witness ==
    /\ pc = "loop"
    /\ calls.executor = 1
    /\ Len(Recorded) = 1
    /\ Recorded[1].action_type = "execute"
    /\ Recorded[1].params = [action |-> "click"]
    /\ queue # <<>>
    /\ queue[Len(queue)].role = "executor"
    /\ queue[Len(queue)].output.actions = <<"click">>

\* the Dispatcher is about to route a Decision whose type is none of the five
UnknownStep ==
    /\ pc = "route"
    /\ action.py = "dict"
    /\ ~NoActionType(action)
    /\ action.type \notin KnownTypes

\* C26: a step with an unknown action type leaves Task Context Memory (plan,
\* scratch map, action history, step counter) and the persisted file as they
\* were, raises nothing, sends nothing, calls nothing, and goes back to the
\* while test; the iteration it used stays counted, so the iterations and the
\* dispatch calls of the run never exceed max_iterations.
C26_UnknownTypeSkipped ==
    /\ [][UnknownStep =>
            /\ task_memory' = task_memory
            /\ file' = file
            /\ exc' = None
            /\ pc' = "loop"
            /\ queue' = queue
            /\ calls' = calls
            /\ iteration' = iteration
            /\ "unknown action type" \in log']_vars
    /\ [](/\ iteration = calls.dispatch
          /\ iteration <= max_iterations
          /\ UnknownStep => iteration >= 1)

\* after a first step of unknown type the loop went on to a second dispatch,
\* with the memory still empty
C26_Witness ==
    /\ "unknown action type" \in log
    /\ pc = "route"
    /\ calls.dispatch = 2
    /\ iteration = 2
    /\ action.type = "reply"
    /\ Recorded = <<>>
    /\ task_memory.current_step = 0
    /\ exc = None

\* the notifications of _run_dispatcher delivered so far: role planner with
\* the Decision's action (the initial plan's notification carries a plan)
DecisionNotifications ==
    {i \in DOMAIN queue : queue[i].role = "planner" /\ "action" \in DOMAIN queue[i].output}

\* a step that performs an effect of a Decision: a change of memory or of the
\* persisted file, an input action, a tool call, or a notification other
\* than the planner's
EffectStep ==
    \/ task_memory' # task_memory
    \/ file' # file
    \/ calls'.executor # calls.executor
    \/ calls'.call_tool # calls.call_tool
    \/ /\ Len(queue') > Len(queue)
       /\ queue'[Len(queue')].role \in {"executor", "mcp", "summarizer"}

\* C27: when iteration k's Decision is about to be routed - whatever its
\* type, empty and unknown included - the k-th Decision notification is the
\* last message delivered and carries that Decision; and every effect made
\* in an iteration is made by a step that starts there, so none of iteration
\* k's effects precedes iteration k's planner notification.
C27_NotifiedBeforeEffect ==
    /\ [](pc = "route" =>
            /\ iteration >= 1
            /\ Cardinality(DecisionNotifications) = iteration
            /\ queue[Len(queue)].role = "planner"
            /\ queue[Len(queue)].output.action = action)
    /\ [][(iteration >= 1 /\ EffectStep) =>
            /\ pc = "route"
            /\ iteration' = iteration
            /\ Cardinality(DecisionNotifications) = iteration
            /\ Len(queue) \in DecisionNotifications]_vars

\* iteration 1 recorded an action, and iteration 2's Decision, an empty
\* envelope, has been notified and is about to be routed
C27_Witness ==
    /\ pc = "route"
    /\ iteration = 2
    /\ NoActionType(action)
    /\ Cardinality(DecisionNotifications) = 2
    /\ queue[Len(queue)].output.action = action
    /\ Len(Recorded) = 1

\* C28: every step of an iteration appends at most one Recorded Action, for
\* every action type and every outcome (a tool call whose notification raises
\* after the result was recorded included), so the task's step counter never
\* exceeds the number of dispatch calls made so far.
C28_OneRecordPerStep ==
    /\ [][Len(task_memory'.dispatcher_actions) <= Len(Recorded) + 1]_vars
    /\ [](task_memory.current_step <= calls.dispatch)

-----------------------------------------------------------------------------
(* Resources of a failed add_server, checked under MgrSpec *)

\* the contexts on the exit stack that are still open
OpenContexts(stack) == {i \in DOMAIN stack : stack[i].state = "open"}

\* C29: an add_server that returns False, whatever it had opened before it
\* failed, leaves no open transport or session behind; so between manager
\* operations every open session on the exit stack is the one a registered
\* server refers to, and every open transport is the one under such a session.
C29_FailedAddReleases ==
    /\ [][(last_call'.op = "add_server" /\ last_call'.result = <<FALSE>>) =>
            OpenContexts(exit_stack') = OpenContexts(exit_stack)]_vars
    /\ [](\A i \in OpenContexts(exit_stack) :
            \E n \in DOMAIN servers :
                servers[n].session = (IF exit_stack[i].kind = "session" THEN i ELSE i + 1))

-----------------------------------------------------------------------------
(* Termination and shutdown of a run, checked under FairSpec *)

\* C30: every run of Agent.process ends, and on each way out (reply, no
\* action, budget exhausted, exception; a server that failed to connect
\* during initialisation included) close_all has been called exactly once:
\* never before the finally clause, once when process has ended, and no
\* dispatch call follows it.
C30_TerminatesAndClosesOnce ==
    /\ <>ProcessEnded
    /\ [](calls.close_all = (IF ProcessEnded THEN 1 ELSE 0))
    /\ [][calls'.close_all # calls.close_all =>
            /\ pc = "finally"
            /\ calls'.close_all = calls.close_all + 1
            /\ calls'.dispatch = calls.dispatch]_vars
    /\ [][calls.close_all > 0 => calls'.dispatch = calls.dispatch]_vars

\* a run whose server failed to connect after its transport was opened, which
\* dispatched twice and then raised: it ended, closed once, and the transport
\* left on the exit stack is closed
C30_Witness ==
    /\ pc = "done"
    /\ exc # None
    /\ calls.dispatch = 2
    /\ calls.close_all = 1
    /\ Len(exit_stack) = 1
    /\ exit_stack[1].state = "closed"

====
